---- MODULE Spec2Model ----
(***************************************************************************)
(* Job orchestration of the optimized-versions server: the AppService of   *)
(* src/src/app.service.ts (the queueing version, lines 341-714) together    *)
(* with the external ffprobe / ffmpeg child processes it drives.            *)
(*                                                                          *)
(* Percentages are kept in tenths of a percent (progress 100 is 1000,       *)
(* 99.9 is 999) and speeds in tenths (2.5x is 25), so that the values the   *)
(* code computes in floating point are integers here.                       *)
(***************************************************************************)
EXTENDS Integers, Sequences, FiniteSets, TLC

\* ------------------------------------------------------------------ bounds
MaxJobs == 3
MaxDataJobs == 2
MaxCeiling == 2

\* ------------------------------------------------------- program constants
DefaultCeiling == 1
ProgressCap == 999
ProgressDone == 1000
PercentScale == 1000

Ids == 1..MaxJobs
\* an id that uuidv4 never hands out: a caller's unknown job id
UnknownId == MaxJobs + 1
\* MAX_CONCURRENT_JOBS: the default and the values above it
Ceilings == DefaultCeiling..MaxCeiling
Urls == {"hls"}
\* exit codes of a child process: 0 is success
ExitCodes == {0, 1}
\* what parseFloat(output.trim()) yields; 0 stands for the falsy results (0, NaN)
Durations == {0, 10, 60}
\* match groups of /time=(\d{2}):(\d{2}):(\d{2})\.\d{2}/, <<>> when the line has no match
TimeTokens == {<<>>, <<0, 0, 5>>, <<0, 0, 30>>}
\* match group of /speed=(\d+\.?\d*)x/ in tenths, <<>> when the line has no match
SpeedTokens == {<<>>, <<25>>}
Lines == [time : TimeTokens, speed : SpeedTokens]
\* results of fsPromises.stat(outputPath): <<>> when it throws, <<size>> otherwise
StatResults == {<<>>, <<7>>}
\* one typical output of each child, for the runs that are about scheduling
SchedDurations == {10}
SchedLines == {[time |-> <<0, 0, 5>>, speed |-> <<25>>]}
SchedStats == {<<7>>}

VARIABLES
    maxConcurrentJobs,  \* AppService.maxConcurrentJobs
    activeJobs,         \* AppService.activeJobs : Job[]
    jobQueue,           \* AppService.jobQueue : string[]
    ffmpegProcesses,    \* keys of AppService.ffmpegProcesses
    videoDurations,     \* AppService.videoDurations : Map<string, number>
    probe,              \* per id, the ffprobe child of getVideoDuration
    combiner,           \* per id, the ffmpeg child of startFFmpegProcess
    nextId,             \* the next id uuidv4 hands out
    crashed,            \* an exception or a promise rejection left the event loop
                        \* unhandled: the node process is gone
    response            \* what GET /download/:id answered last, <<>> before the first

vars == <<maxConcurrentJobs, activeJobs, jobQueue, ffmpegProcesses, videoDurations,
          probe, combiner, nextId, crashed, response>>

\* ----------------------------------------------------------------- helpers
MinOf(S) == CHOOSE x \in S : \A y \in S : x <= y

Range(s) == {s[i] : i \in DOMAIN s}

\* Array.prototype.find((job) => job.id === jobId): index of the first match, 0 if none
Find(jobs, jobId) ==
    LET S == {i \in DOMAIN jobs : jobs[i].id = jobId}
    IN IF S = {} THEN 0 ELSE MinOf(S)

HasJob(jobs, jobId) == Find(jobs, jobId) # 0

\* status of the registry entry of jobId, "absent" when there is none
StatusOf(jobs, jobId) ==
    IF HasJob(jobs, jobId) THEN jobs[Find(jobs, jobId)].status ELSE "absent"

\* path.join(cacheDir, `combined_${jobId}.mp4`)
OutputPath(jobId) == <<"cache", "combined", jobId>>

\* the entry downloadAndCombine pushes
NewJob(jobId, url) ==
    [id |-> jobId, status |-> "queued", progress |-> 0, outputPath |-> OutputPath(jobId),
     inputUrl |-> url, size |-> 0, speed |-> <<>>]

\* activeJobs.filter((job) => job.id !== jobId)
RemoveJob(jobs, jobId) == SelectSeq(jobs, LAMBDA job : job.id # jobId)

\* mutant of RemoveFromQueue: the backlog is left as it is
RemoveFromQueue_Keep(queue, jobId) == queue

\* jobQueue.filter((id) => id !== jobId)
RemoveFromQueue(queue, jobId) == SelectSeq(queue, LAMBDA id : id # jobId)

\* Map.prototype.delete
MapDelete(map, key) == [k \in (DOMAIN map) \ {key} |-> map[k]]

\* Map.prototype.set
MapSet(map, key, value) == [k \in (DOMAIN map) \cup {key} |-> IF k = key THEN value ELSE map[k]]

\* ------------------------------------------------------------ the scheduler
\* activeJobs.filter((job) => job.status === 'optimizing').length
RunningJobs(jobs) == Cardinality({i \in DOMAIN jobs : jobs[i].status = "optimizing"})

\* mutant of Admits: an off-by-one comparison
Admits_OffByOne(runningJobs, max) == runningJobs <= max

\* the loop condition's test of the count checkQueue took before the loop
Admits(runningJobs, max) == runningJobs < max

\* mutant of startJob: the entry's input is rewritten when it is started
startJob_Rewrite(st, jobId) ==
    LET i == Find(st.jobs, jobId)
    IN IF i = 0
       THEN st
       ELSE [st EXCEPT !.jobs[i].status = "optimizing", !.jobs[i].inputUrl = "proxied",
                       !.probe[jobId] = "running"]

\* startJob: marks the entry optimizing and calls startFFmpegProcess, which runs
\* synchronously up to the spawn of ffprobe in getVideoDuration.
\* st is [jobs, queue, probe].
startJob(st, jobId) ==
    LET i == Find(st.jobs, jobId)
    IN IF i = 0
       THEN st
       ELSE [st EXCEPT !.jobs[i].status = "optimizing", !.probe[jobId] = "running"]

\* mutant of checkQueueLoop: the oldest job is started and left in the backlog
checkQueueLoop_NoShift(runningJobs, max, st) ==
    IF Admits(runningJobs, max) /\ Len(st.queue) > 0
    THEN startJob(st, Head(st.queue))
    ELSE st

\* mutant of checkQueueLoop: one job is admitted, and it is the newest of the backlog
checkQueueLoop_LastOnly(runningJobs, max, st) ==
    IF Admits(runningJobs, max) /\ Len(st.queue) > 0
    THEN startJob([st EXCEPT !.queue = SubSeq(@, 1, Len(@) - 1)], st.queue[Len(st.queue)])
    ELSE st

RECURSIVE checkQueueLoop(_, _, _)
checkQueueLoop(runningJobs, max, st) ==
    IF Admits(runningJobs, max) /\ Len(st.queue) > 0
    THEN checkQueueLoop(runningJobs, max,
                        startJob([st EXCEPT !.queue = Tail(@)], Head(st.queue)))
    ELSE st

checkQueue(st, max) == checkQueueLoop(RunningJobs(st.jobs), max, st)

Sched(jobs, queue) == [jobs |-> jobs, queue |-> queue, probe |-> probe]

\* ------------------------------------------------------------------- Init
Init ==
    /\ maxConcurrentJobs \in Ceilings
    /\ activeJobs = <<>>
    /\ jobQueue = <<>>
    /\ ffmpegProcesses = {}
    /\ videoDurations = <<>>
    /\ probe = [j \in Ids |-> "none"]
    /\ combiner = [j \in Ids |-> "none"]
    /\ nextId = 1
    /\ crashed = FALSE
    /\ response = <<>>

\* ids a caller can pass: every id handed out so far, and an unknown one
CallIds == (1..(nextId - 1)) \cup {UnknownId}

\* ---------------------------------------------------------------- actions
downloadAndCombine(url) ==
    /\ ~crashed
    /\ LET jobId == nextId
           st == checkQueue(Sched(Append(activeJobs, NewJob(jobId, url)),
                                  Append(jobQueue, jobId)),
                            maxConcurrentJobs)
       IN /\ activeJobs' = st.jobs
          /\ jobQueue' = st.queue
          /\ probe' = st.probe
          /\ nextId' = nextId + 1
    /\ UNCHANGED <<maxConcurrentJobs, ffmpegProcesses, videoDurations, combiner, crashed,
                   response>>

\* mutant of cancelJob: the killed process stays in the process table
cancelJob_KeepHandle(jobId) ==
    /\ ~crashed
    /\ LET job == Find(activeJobs, jobId)
           process == jobId \in ffmpegProcesses
           queue1 == IF job # 0 THEN RemoveFromQueue(jobQueue, jobId) ELSE jobQueue
           jobs1 == IF job # 0 THEN RemoveJob(activeJobs, jobId) ELSE activeJobs
           st == checkQueue(Sched(jobs1, queue1), maxConcurrentJobs)
       IN /\ combiner' = IF process THEN [combiner EXCEPT ![jobId] = "killed"] ELSE combiner
          /\ ffmpegProcesses' = ffmpegProcesses
          /\ activeJobs' = st.jobs
          /\ jobQueue' = st.queue
          /\ probe' = st.probe
    /\ UNCHANGED <<maxConcurrentJobs, videoDurations, nextId, crashed, response>>

\* the value cancelJob returns for a call that found `job` (an index, 0 if none)
\* and `process` (whether ffmpegProcesses held a handle)
cancelJobResult(job, process) == TRUE

cancelJob(jobId) ==
    /\ ~crashed
    /\ LET job == Find(activeJobs, jobId)
           process == jobId \in ffmpegProcesses
           queue1 == IF job # 0 THEN RemoveFromQueue(jobQueue, jobId) ELSE jobQueue
           jobs1 == IF job # 0 THEN RemoveJob(activeJobs, jobId) ELSE activeJobs
           st == checkQueue(Sched(jobs1, queue1), maxConcurrentJobs)
       IN /\ combiner' = IF process THEN [combiner EXCEPT ![jobId] = "killed"] ELSE combiner
          /\ ffmpegProcesses' = ffmpegProcesses \ {jobId}
          /\ activeJobs' = st.jobs
          /\ jobQueue' = st.queue
          /\ probe' = st.probe
    /\ UNCHANGED <<maxConcurrentJobs, videoDurations, nextId, crashed, response>>

\* mutant of cleanupJobOn: the probed duration is left behind
cleanupJobOn_KeepDuration(reg, jobId) ==
    [jobs |-> RemoveJob(reg.jobs, jobId),
     processes |-> reg.processes \ {jobId},
     durations |-> reg.durations]

\* cleanupJob on the three collections it touches; reg is [jobs, processes, durations]
cleanupJobOn(reg, jobId) ==
    [jobs |-> RemoveJob(reg.jobs, jobId),
     processes |-> reg.processes \ {jobId},
     durations |-> MapDelete(reg.durations, jobId)]

Registry == [jobs |-> activeJobs, processes |-> ffmpegProcesses, durations |-> videoDurations]

\* a caller of the service retires jobId
cleanupJob(jobId) ==
    /\ ~crashed
    /\ LET reg == cleanupJobOn(Registry, jobId)
       IN /\ activeJobs' = reg.jobs
          /\ ffmpegProcesses' = reg.processes
          /\ videoDurations' = reg.durations
    /\ UNCHANGED <<maxConcurrentJobs, jobQueue, probe, combiner, nextId, crashed, response>>

\* the loop of CleanupService.handleCleanup over the array getAllJobs() returned,
\* from index i on; a job is older than one hour iff its id is at most `cutoff`
\* (ids and timestamps are both handed out in submission order)
RECURSIVE handleCleanupLoop(_, _, _, _)
handleCleanupLoop(jobs, i, cutoff, reg) ==
    IF i > Len(jobs)
    THEN reg
    ELSE handleCleanupLoop(jobs, i + 1, cutoff,
                           IF jobs[i].status = "completed" /\ jobs[i].id <= cutoff
                           THEN cleanupJobOn(reg, jobs[i].id)
                           ELSE reg)

\* the hourly retention sweep
handleCleanup(cutoff) ==
    /\ ~crashed
    /\ LET reg == handleCleanupLoop(activeJobs, 1, cutoff, Registry)
       IN /\ activeJobs' = reg.jobs
          /\ ffmpegProcesses' = reg.processes
          /\ videoDurations' = reg.durations
    /\ UNCHANGED <<maxConcurrentJobs, jobQueue, probe, combiner, nextId, crashed, response>>

\* mutant of getTranscodedFilePath: the status of the entry is not looked at
getTranscodedFilePath_AnyStatus(jobs, jobId) ==
    LET job == Find(jobs, jobId)
    IN IF job # 0 THEN <<jobs[job].outputPath>> ELSE <<>>

\* getTranscodedFilePath: <<outputPath>> for a completed job, <<>> for null
getTranscodedFilePath(jobs, jobId) ==
    LET job == Find(jobs, jobId)
    IN IF job # 0 /\ jobs[job].status = "completed" THEN <<jobs[job].outputPath>> ELSE <<>>

\* GET /download/:id of the controller that goes with this service.  Without a path
\* it throws NotFoundException before it touches the file system; with one it stats
\* and streams the file and returns when the response has finished.  The answer
\* records the path that was streamed, <<>> for not-found.
downloadTranscodedFile(id) ==
    /\ ~crashed
    /\ response' = [id |-> id, filePath |-> getTranscodedFilePath(activeJobs, id)]
    /\ UNCHANGED <<maxConcurrentJobs, activeJobs, jobQueue, ffmpegProcesses, videoDurations,
                   probe, combiner, nextId, crashed>>

\* the status the catch block of startFFmpegProcess gives a job whose probe rejected
ProbeFailedStatus == "failed"

\* mutant of ProbeClose: ffmpeg is spawned whatever the exit code of ffprobe
ProbeClose_SpawnAlways(jobId, code, duration) ==
    /\ ~crashed
    /\ probe[jobId] = "running"
    /\ LET st == checkQueue([jobs |-> activeJobs, queue |-> jobQueue,
                             probe |-> [probe EXCEPT
                                          ![jobId] = IF code = 0 THEN "ok" ELSE "failed"]],
                            maxConcurrentJobs)
       IN /\ videoDurations' = MapSet(videoDurations, jobId, duration)
          /\ combiner' = [combiner EXCEPT ![jobId] = "running"]
          /\ ffmpegProcesses' = ffmpegProcesses \cup {jobId}
          /\ activeJobs' = st.jobs
          /\ jobQueue' = st.queue
          /\ probe' = st.probe
    /\ UNCHANGED <<maxConcurrentJobs, nextId, crashed, response>>

\* ffprobe closes with `code` having printed `duration`.  Code 0 resolves
\* getVideoDuration: the continuation of startFFmpegProcess spawns ffmpeg, registers
\* its handle and returns the promise, at which point the finally block runs
\* checkQueue.  Any other code rejects: the catch block marks the job failed and the
\* finally block runs checkQueue.
ProbeClose(jobId, code, duration) ==
    /\ ~crashed
    /\ probe[jobId] = "running"
    /\ IF code = 0
       THEN LET st == checkQueue([jobs |-> activeJobs, queue |-> jobQueue,
                                  probe |-> [probe EXCEPT ![jobId] = "ok"]],
                                 maxConcurrentJobs)
            IN /\ videoDurations' = MapSet(videoDurations, jobId, duration)
               /\ combiner' = [combiner EXCEPT ![jobId] = "running"]
               /\ ffmpegProcesses' = ffmpegProcesses \cup {jobId}
               /\ activeJobs' = st.jobs
               /\ jobQueue' = st.queue
               /\ probe' = st.probe
       ELSE LET job == Find(activeJobs, jobId)
                jobs1 == IF job # 0
                         THEN [activeJobs EXCEPT ![job].status = ProbeFailedStatus]
                         ELSE activeJobs
                st == checkQueue([jobs |-> jobs1, queue |-> jobQueue,
                                  probe |-> [probe EXCEPT ![jobId] = "failed"]],
                                 maxConcurrentJobs)
            IN /\ activeJobs' = st.jobs
               /\ jobQueue' = st.queue
               /\ probe' = st.probe
               /\ UNCHANGED <<videoDurations, combiner, ffmpegProcesses>>
    /\ UNCHANGED <<maxConcurrentJobs, nextId, crashed, response>>

\* ffprobe cannot be launched: the child emits 'error', for which getVideoDuration
\* registers no listener, so the emit throws out of the event loop; 'close' is
\* never handled.
ProbeLaunchError(jobId) ==
    /\ ~crashed
    /\ probe[jobId] = "running"
    /\ probe' = [probe EXCEPT ![jobId] = "launcherror"]
    /\ crashed' = TRUE
    /\ UNCHANGED <<maxConcurrentJobs, activeJobs, jobQueue, ffmpegProcesses,
                   videoDurations, combiner, nextId, response>>

\* ------------------------------------------------------ the progress parser
Min2(a, b) == IF a < b THEN a ELSE b
Max2(a, b) == IF a > b THEN a ELSE b

\* parseInt(hours) * 3600 + parseInt(minutes) * 60 + parseInt(seconds)
CurrentTime(time) == time[1] * 3600 + time[2] * 60 + time[3]

\* mutant of ProgressOf: a sample may reach 100
ProgressOf_Full(currentTime, totalDuration) ==
    Min2((currentTime * PercentScale) \div totalDuration, ProgressDone)

\* mutant of ProgressOf: the cap at 99.9 is missing
ProgressOf_NoCap(currentTime, totalDuration) ==
    (currentTime * PercentScale) \div totalDuration

\* Math.min((currentTime / totalDuration) * 100, 99.9), in tenths of a percent
\* (rounded down to a tenth)
ProgressOf(currentTime, totalDuration) ==
    Min2((currentTime * PercentScale) \div totalDuration, ProgressCap)

\* mutant of updateProgress: a line without a time= token resets the progress
updateProgress_ResetOnNoMatch(jobs, durations, jobId, line) ==
    LET job == Find(jobs, jobId)
        totalDuration == IF jobId \in DOMAIN durations THEN durations[jobId] ELSE 0
    IN IF line.time # <<>> /\ totalDuration # 0 /\ job # 0
       THEN [jobs EXCEPT ![job].progress =
                            Max2(ProgressOf(CurrentTime(line.time), totalDuration), 0)]
       ELSE IF job # 0 THEN [jobs EXCEPT ![job].progress = 0] ELSE jobs

\* updateProgress(jobId, ffmpegOutput) on the registry `jobs`
updateProgress(jobs, durations, jobId, line) ==
    LET job == Find(jobs, jobId)
        totalDuration == IF jobId \in DOMAIN durations THEN durations[jobId] ELSE 0
    IN IF line.time # <<>> /\ totalDuration # 0 /\ job # 0
       THEN LET progress == ProgressOf(CurrentTime(line.time), totalDuration)
                jobs1 == [jobs EXCEPT ![job].progress = Max2(progress, 0)]
            IN IF line.speed # <<>>
               THEN [jobs1 EXCEPT ![job].speed = <<Max2(line.speed[1], 0)>>]
               ELSE jobs1
       ELSE jobs

\* a chunk of ffmpeg's stderr arrives: the 'data' listener of startFFmpegProcess
CombinerData(jobId, line) ==
    /\ ~crashed
    /\ combiner[jobId] \in {"running", "killed"}
    /\ activeJobs' = updateProgress(activeJobs, videoDurations, jobId, line)
    /\ UNCHANGED <<maxConcurrentJobs, jobQueue, ffmpegProcesses, videoDurations, probe,
                   combiner, nextId, crashed, response>>

\* mutant of CloseStatus: a failed job is put back to queued
CloseStatus_Requeue(code) == IF code = 0 THEN "completed" ELSE "queued"

\* the status the 'close' listener gives a job still in the registry
CloseStatus(code) == IF code = 0 THEN "completed" ELSE "failed"

\* mutant of CloseProgress: a failed job keeps a progress value
CloseProgress_NoReset(code) == IF code = 0 THEN ProgressDone ELSE ProgressCap

\* the progress the 'close' listener gives a job still in the registry
CloseProgress(code) == IF code = 0 THEN ProgressDone ELSE 0

\* mutant of CloseHandler: the handle of the exited process stays in the table
CloseHandler_KeepHandle(jobId, code, rejected) ==
    /\ ffmpegProcesses' = ffmpegProcesses
    /\ videoDurations' = MapDelete(videoDurations, jobId)
    /\ LET job == Find(activeJobs, jobId)
       IN IF job = 0
          THEN /\ combiner' = [combiner EXCEPT ![jobId] = "closed"]
               /\ crashed' = rejected
               /\ UNCHANGED activeJobs
          ELSE /\ activeJobs' = [activeJobs EXCEPT ![job].status = CloseStatus(code),
                                                   ![job].progress = CloseProgress(code)]
               /\ combiner' = [combiner EXCEPT
                                 ![jobId] = IF code = 0 THEN "stating" ELSE "closed"]
               /\ crashed' = (rejected \/ code # 0)
    /\ UNCHANGED <<maxConcurrentJobs, jobQueue, probe, nextId, response>>

\* the 'close' listener of startFFmpegProcess up to its await of fsPromises.stat.
\* `rejected` tells whether the 'error' listener has rejected the promise before.
\* The promise is the one startFFmpegProcess returns, and startJob neither awaits
\* nor catches it: once it is rejected (by the 'error' listener, or here by
\* reject(...) for a non-zero code) the rejection is unhandled, which ends the
\* node process.
CloseHandler(jobId, code, rejected) ==
    /\ ffmpegProcesses' = ffmpegProcesses \ {jobId}
    /\ videoDurations' = MapDelete(videoDurations, jobId)
    /\ LET job == Find(activeJobs, jobId)
       IN IF job = 0
          THEN /\ combiner' = [combiner EXCEPT ![jobId] = "closed"]
               /\ crashed' = rejected
               /\ UNCHANGED activeJobs
          ELSE /\ activeJobs' = [activeJobs EXCEPT ![job].status = CloseStatus(code),
                                                   ![job].progress = CloseProgress(code)]
               /\ combiner' = [combiner EXCEPT
                                 ![jobId] = IF code = 0 THEN "stating" ELSE "closed"]
               /\ crashed' = (rejected \/ code # 0)
    /\ UNCHANGED <<maxConcurrentJobs, jobQueue, probe, nextId, response>>

\* ffmpeg exits (or dies of the SIGKILL cancelJob sent) and 'close' is emitted
CombinerClose(jobId, code) ==
    /\ ~crashed
    /\ combiner[jobId] \in {"running", "killed"}
    /\ CloseHandler(jobId, code, FALSE)

\* ffmpeg cannot be launched: 'error' is emitted, whose listener rejects the promise.
\* The unhandled rejection ends the process either before 'close' (with the
\* negative errno as the code) is emitted, or after its listener has run.
CombinerLaunchError(jobId) ==
    /\ ~crashed
    /\ combiner[jobId] = "running"
    /\ \/ /\ combiner' = [combiner EXCEPT ![jobId] = "launcherror"]
          /\ crashed' = TRUE
          /\ UNCHANGED <<maxConcurrentJobs, activeJobs, jobQueue, ffmpegProcesses,
                         videoDurations, probe, nextId, response>>
       \/ CloseHandler(jobId, -2, TRUE)

\* mutant of StatDone: a failed stat demotes the job
StatDone_Demote(jobId, stat) ==
    /\ ~crashed
    /\ combiner[jobId] = "stating"
    /\ combiner' = [combiner EXCEPT ![jobId] = "closed"]
    /\ LET job == Find(activeJobs, jobId)
       IN activeJobs' = IF job = 0
                        THEN activeJobs
                        ELSE IF stat # <<>>
                             THEN [activeJobs EXCEPT ![job].size = stat[1]]
                             ELSE [activeJobs EXCEPT ![job].status = "failed",
                                                     ![job].progress = 0]
    /\ UNCHANGED <<maxConcurrentJobs, jobQueue, ffmpegProcesses, videoDurations, probe,
                   nextId, crashed, response>>

\* fsPromises.stat settles and the 'close' listener resumes: job.size = stats.size
\* on success, a log line on failure
StatDone(jobId, stat) ==
    /\ ~crashed
    /\ combiner[jobId] = "stating"
    /\ combiner' = [combiner EXCEPT ![jobId] = "closed"]
    /\ LET job == Find(activeJobs, jobId)
       IN activeJobs' = IF job # 0 /\ stat # <<>>
                        THEN [activeJobs EXCEPT ![job].size = stat[1]]
                        ELSE activeJobs
    /\ UNCHANGED <<maxConcurrentJobs, jobQueue, ffmpegProcesses, videoDurations, probe,
                   nextId, crashed, response>>

\* ------------------------------------------------------------ specification
ProbeExit(jobId, durations) ==
    \/ \E code \in ExitCodes, duration \in durations : ProbeClose(jobId, code, duration)
    \/ ProbeLaunchError(jobId)

CombinerExit(jobId) ==
    \/ \E code \in ExitCodes : CombinerClose(jobId, code)
    \/ CombinerLaunchError(jobId)

StatExit(jobId, stats) == \E stat \in stats : StatDone(jobId, stat)

\* what the children and the callers of downloadAndCombine and cancelJob can do,
\* with at most maxJobs submissions and the children's outputs drawn from the
\* given sets
Events(maxJobs, durations, lines, stats) ==
    \/ \E url \in Urls : nextId <= maxJobs /\ downloadAndCombine(url)
    \/ \E jobId \in CallIds : cancelJob(jobId)
    \/ \E jobId \in Ids : ProbeExit(jobId, durations)
    \/ \E jobId \in Ids, line \in lines : CombinerData(jobId, line)
    \/ \E jobId \in Ids : CombinerExit(jobId)
    \/ \E jobId \in Ids : StatExit(jobId, stats)

\* The server as it is wired: cleanupJob is called by the retention sweep only.
\* Up to MaxJobs jobs, each child with one typical output.
Next ==
    \/ Events(MaxJobs, SchedDurations, SchedLines, SchedStats)
    \/ \E cutoff \in 0..(nextId - 1) : handleCleanup(cutoff)

Spec == Init /\ [][Next]_vars

\* every child process that was spawned exits, and every stat settles
FairSpec ==
    /\ Spec
    /\ \A jobId \in Ids : WF_vars(ProbeExit(jobId, SchedDurations))
    /\ \A jobId \in Ids : WF_vars(CombinerExit(jobId))
    /\ \A jobId \in Ids : WF_vars(StatExit(jobId, SchedStats))

\* The service as a facade: any caller may retire any id at any time.
ApiNext ==
    \/ Events(MaxJobs, SchedDurations, SchedLines, SchedStats)
    \/ \E jobId \in CallIds : cleanupJob(jobId)

ApiSpec == Init /\ [][ApiNext]_vars

\* The facade with up to MaxDataJobs jobs and every output of the children.
DataNext ==
    \/ Events(MaxDataJobs, Durations, Lines, StatResults)
    \/ \E jobId \in CallIds : cleanupJob(jobId)

DataSpec == Init /\ [][DataNext]_vars

\* The server behind its HTTP routes, with up to MaxDataJobs jobs: submissions,
\* cancellations, downloads and the retention sweep.
HttpNext ==
    \/ Events(MaxDataJobs, SchedDurations, SchedLines, SchedStats)
    \/ \E cutoff \in 0..(nextId - 1) : handleCleanup(cutoff)
    \/ \E id \in CallIds : downloadTranscodedFile(id)

HttpSpec == Init /\ [][HttpNext]_vars

Statuses == {"queued", "optimizing", "completed", "failed", "cancelled"}

TypeOK ==
    /\ maxConcurrentJobs \in Ceilings
    /\ \A i \in DOMAIN activeJobs :
          /\ activeJobs[i].id \in Ids
          /\ activeJobs[i].status \in Statuses
          /\ activeJobs[i].progress \in 0..ProgressDone
    /\ Range(jobQueue) \subseteq Ids
    /\ ffmpegProcesses \subseteq Ids
    /\ DOMAIN videoDurations \subseteq Ids
    /\ nextId \in 1..(MaxJobs + 1)
    /\ crashed \in BOOLEAN
    /\ response = <<>> \/ response.id \in Ids \cup {UnknownId}

\* ------------------------------------------------------------------ claims
Status(jobId) == StatusOf(activeJobs, jobId)

\* ids whose entry went from queued to optimizing in this step
StartedNow == {j \in Ids : StatusOf(activeJobs, j) = "queued"
                           /\ StatusOf(activeJobs', j) = "optimizing"}

\* the combiner of jobId exits in this step: its 'close' listener runs
CombinerExitsNow(jobId) ==
    /\ combiner[jobId] \in {"running", "killed"}
    /\ combiner'[jobId] \in {"stating", "closed"}

\* C1: in every reachable state the number of registry entries whose status is
\* optimizing is at most maxConcurrentJobs.
C1_RunningWithinCeiling == RunningJobs(activeJobs) <= maxConcurrentJobs

\* one step of the status machine: queued -> optimizing -> completed | failed,
\* queued | optimizing -> cancelled
PathStep(s, t) ==
    \/ s = t
    \/ <<s, t>> \in {<<"queued", "optimizing">>, <<"optimizing", "completed">>,
                     <<"optimizing", "failed">>, <<"queued", "cancelled">>,
                     <<"optimizing", "cancelled">>}

\* C2: every change of a job's status is a step of the status machine: an entry that
\* stays in the registry never returns to queued and never leaves completed, failed
\* or cancelled; an entry appears only for the id just handed out, as queued or (when
\* admitted in the same call) optimizing; an id that lost its entry never gets one again.
C2_StatusPath ==
    [][\A j \in Ids :
          LET s == StatusOf(activeJobs, j)
              t == StatusOf(activeJobs', j)
          IN /\ (s # "absent" /\ t # "absent") => PathStep(s, t)
             /\ (s = "absent" /\ t # "absent") =>
                    (j = nextId /\ t \in {"queued", "optimizing"})]_vars

\* C2 witness: one job completed and its size was recorded afterwards, another failed
C2_Witness ==
    \E i, k \in DOMAIN activeJobs :
        /\ activeJobs[i].status = "completed"
        /\ activeJobs[i].size > 0
        /\ activeJobs[k].status = "failed"

\* C3: when the combiner of an optimizing job exits while the backlog is non-empty,
\* handling that exit starts exactly one new job, the oldest backlog entry.
C3_ExitStartsOneJob ==
    [][\A j \in Ids :
          (CombinerExitsNow(j) /\ Status(j) = "optimizing" /\ jobQueue # <<>>)
             => StartedNow = {Head(jobQueue)}]_vars

\* C4: under the fairness of FairSpec (every spawned probe and combiner exits), a job
\* that is queued eventually is completed or failed, unless it is cancelled or retired
\* (it loses its entry) or the server has crashed.
C4_NoStarvation ==
    \A j \in Ids :
        (Status(j) = "queued") ~> (Status(j) \in {"completed", "failed", "absent"} \/ crashed)

\* only submissions have happened: every id handed out still has its entry, no child
\* process has exited and none beyond the probes has been spawned
OnlySubmitted ==
    /\ ~crashed
    /\ Len(activeJobs) = nextId - 1
    /\ \A j \in Ids : probe[j] \in {"none", "running"} /\ combiner[j] = "none"

\* C5: after N > C submissions to an empty registry with ceiling C, and before any
\* process exit, cancel or cleanup, exactly the first C jobs are optimizing and the
\* other N - C are queued.
C5_SubmitFillsCeiling ==
    (OnlySubmitted /\ nextId - 1 > maxConcurrentJobs) =>
        /\ \A j \in 1..(nextId - 1) :
              Status(j) = IF j <= maxConcurrentJobs THEN "optimizing" ELSE "queued"
        /\ RunningJobs(activeJobs) = maxConcurrentJobs
        /\ Len(jobQueue) = (nextId - 1) - maxConcurrentJobs

\* C5 witness: three submissions under a ceiling of two
C5_Witness == OnlySubmitted /\ nextId - 1 > maxConcurrentJobs /\ maxConcurrentJobs > 1

\* the id was handed out and nothing of it is left: no entry, no backlog slot, and
\* neither a probe nor a combiner was ever spawned for it
Gone(j) ==
    /\ j < nextId
    /\ Status(j) = "absent"
    /\ j \notin Range(jobQueue)
    /\ probe[j] = "none"
    /\ combiner[j] = "none"

\* C6: cancelJob on a queued job leaves the id out of the backlog, without an
\* optimizing entry and without any process spawned for it, and from then on that
\* stays so in every later state.
C6_CancelQueuedNeverRuns ==
    [][\A j \in Ids :
          /\ (cancelJob(j) /\ Status(j) = "queued") => Gone(j)'
          /\ Gone(j) => Gone(j)']_vars

\* C6 witness: a job was cancelled while queued and a job submitted after it was
\* started nevertheless
C6_Witness == \E j, k \in Ids : Gone(j) /\ j < k /\ probe[k] # "none"

\* the registry entry of jobId, <<>> when there is none
EntryOf(jobs, jobId) ==
    IF HasJob(jobs, jobId) THEN <<jobs[Find(jobs, jobId)]>> ELSE <<>>

\* C7: cancelJob on a job whose status is completed, failed or cancelled returns
\* false and leaves the job's registry entry as it was.
C7_CancelTerminalRefused ==
    [][\A j \in Ids :
          (cancelJob(j) /\ Status(j) \in {"completed", "failed", "cancelled"})
             => /\ cancelJobResult(Find(activeJobs, j), j \in ffmpegProcesses) = FALSE
                /\ EntryOf(activeJobs', j) = EntryOf(activeJobs, j)]_vars

\* C8: cancelJob on an id without a registry entry returns false and leaves the
\* registry, the backlog and the process table unchanged.
C8_CancelUnknownRefused ==
    [][\A j \in CallIds :
          (cancelJob(j) /\ ~HasJob(activeJobs, j))
             => /\ cancelJobResult(0, j \in ffmpegProcesses) = FALSE
                /\ UNCHANGED <<activeJobs, jobQueue, ffmpegProcesses>>]_vars

\* C9: when cancelJob is called on a queued or optimizing job, the registry holds
\* its entry with status cancelled when the call returns.
C9_CancelKeepsEntryCancelled ==
    [][\A j \in Ids :
          (cancelJob(j) /\ Status(j) \in {"queued", "optimizing"})
             => StatusOf(activeJobs', j) = "cancelled"]_vars

\* C10: once the probe of a job has exited with a non-zero code or failed to launch,
\* the job (while it has an entry) is failed and no combiner was spawned for it.
C10_ProbeFailureFailsJob ==
    \A j \in Ids :
        probe[j] \in {"failed", "launcherror"} =>
            /\ HasJob(activeJobs, j) => Status(j) = "failed"
            /\ combiner[j] = "none"

\* progress of the registry entry of jobId (which must exist)
Progress(jobs, jobId) == jobs[Find(jobs, jobId)].progress

\* C11: when the combiner of an optimizing job that has a registry entry exits, the
\* entry becomes completed with progress 100 for code 0, and failed with progress 0
\* for any other code, whatever its progress was.
C11_CloseSetsTerminalValues ==
    [][\A j \in Ids, code \in ExitCodes :
          (CombinerClose(j, code) /\ Status(j) = "optimizing")
             => /\ StatusOf(activeJobs', j) = (IF code = 0 THEN "completed" ELSE "failed")
                /\ Progress(activeJobs', j) = (IF code = 0 THEN ProgressDone ELSE 0)]_vars

\* C11 witness: a job whose combiner reported progress and speed, then exited with a
\* non-zero code: it is failed with progress 0
C11_Witness ==
    \E i \in DOMAIN activeJobs :
        /\ activeJobs[i].status = "failed"
        /\ activeJobs[i].progress = 0
        /\ activeJobs[i].speed # <<>>
        /\ combiner[activeJobs[i].id] = "closed"

\* C12: a queued or optimizing job has a progress between 0 and 99.9, only a
\* completed job has progress 100, and a failed job has progress 0.
C12_ProgressRange ==
    \A i \in DOMAIN activeJobs :
        /\ activeJobs[i].status \in {"queued", "optimizing"}
              => (0 <= activeJobs[i].progress /\ activeJobs[i].progress <= ProgressCap)
        /\ activeJobs[i].progress = ProgressDone => activeJobs[i].status = "completed"
        /\ activeJobs[i].status = "failed" => activeJobs[i].progress = 0

\* C12 witness: a sample past the probed duration left an optimizing job at the cap
C12_Witness ==
    \E i \in DOMAIN activeJobs :
        /\ activeJobs[i].status = "optimizing"
        /\ activeJobs[i].progress = ProgressCap
        /\ combiner[activeJobs[i].id] = "running"

\* C13: while a job is optimizing its progress never decreases, whatever lines the
\* combiner prints.
C13_ProgressMonotonic ==
    [][\A j \in Ids :
          (Status(j) = "optimizing" /\ StatusOf(activeJobs', j) = "optimizing")
             => Progress(activeJobs', j) >= Progress(activeJobs, j)]_vars

\* C14: getTranscodedFilePath(id) is the job's outputPath exactly when id has a
\* registry entry whose status is completed, and null for every other id; a download
\* of such an other id is answered not-found and touches nothing.
C14_PathOnlyWhenCompleted ==
    /\ [](\A id \in CallIds :
             getTranscodedFilePath(activeJobs, id) =
                 IF Status(id) = "completed" THEN <<OutputPath(id)>> ELSE <<>>)
    /\ [][\A id \in CallIds :
             (downloadTranscodedFile(id) /\ Status(id) # "completed")
                => /\ response'.filePath = <<>>
                   /\ UNCHANGED <<activeJobs, jobQueue, ffmpegProcesses, videoDurations,
                                  probe, combiner>>]_vars

\* C14 witness: the last download asked for a job that was not completed (it still
\* is queued, optimizing or failed) and was answered not-found, while another job
\* is completed
C14_Witness ==
    /\ response # <<>>
    /\ response.filePath = <<>>
    /\ Status(response.id) \in {"queued", "optimizing", "failed"}
    /\ \E j \in Ids : Status(j) = "completed"

\* C15: a download of a completed job's artifact retires the job: when the handler
\* returns, the job has no registry entry.
C15_DownloadRetires ==
    [][\A id \in Ids :
          (downloadTranscodedFile(id) /\ Status(id) = "completed")
             => StatusOf(activeJobs', id) = "absent"]_vars

\* C16: a job whose probe or combiner has exited, on whatever path (exit 0, non-zero
\* exit, launch error, kill), is not optimizing any more unless another process of
\* it is still at work (the combiner after a probe that exited 0); after a launch
\* error it is failed.
C16_NoJobStuckAfterExit ==
    \A j \in Ids :
        /\ (probe[j] \in {"failed", "launcherror"}
              \/ combiner[j] \in {"stating", "closed", "launcherror"})
               => Status(j) # "optimizing"
        /\ (HasJob(activeJobs, j) /\ "launcherror" \in {probe[j], combiner[j]})
               => Status(j) = "failed"

\* C17: no failure of a probe or a combiner leaves the supervisor as an uncaught
\* exception or an unhandled promise rejection.
C17_FailuresAbsorbed == crashed = FALSE

\* the probed duration recorded for jobId, <<>> when there is none
DurationOf(durations, jobId) ==
    IF jobId \in DOMAIN durations THEN <<durations[jobId]>> ELSE <<>>

\* C18: cleanupJob(id) leaves id without registry entry, process handle and probed
\* duration and every other job's entry, handle and duration as they were; doing it
\* again changes nothing, and for an id that has none of the three it changes nothing
\* in the first place.
C18_CleanupRemovesAndIsIdempotent ==
    /\ [](\A id \in CallIds :
             LET once == cleanupJobOn(Registry, id)
             IN /\ cleanupJobOn(once, id) = once
                /\ (~HasJob(activeJobs, id) /\ id \notin ffmpegProcesses
                      /\ id \notin DOMAIN videoDurations) => once = Registry)
    /\ [][\A id \in CallIds :
             cleanupJob(id)
                => /\ ~HasJob(activeJobs', id)
                   /\ id \notin ffmpegProcesses'
                   /\ id \notin DOMAIN videoDurations'
                   /\ activeJobs' = SelectSeq(activeJobs, LAMBDA job : job.id # id)
                   /\ \A k \in Ids \ {id} :
                         /\ EntryOf(activeJobs', k) = EntryOf(activeJobs, k)
                         /\ (k \in ffmpegProcesses') = (k \in ffmpegProcesses)
                         /\ DurationOf(videoDurations', k) = DurationOf(videoDurations, k)
                   /\ cleanupJobOn(Registry', id) = Registry']_vars

\* C18 witness: a job was retired while its combiner was running (the combiner has
\* neither entry nor handle nor duration left) and another running job still has
\* all three
C18_Witness ==
    \E id, k \in Ids :
        /\ id # k
        /\ combiner[id] = "running"
        /\ ~HasJob(activeJobs, id)
        /\ id \notin ffmpegProcesses
        /\ id \notin DOMAIN videoDurations
        /\ combiner[k] = "running"
        /\ Status(k) = "optimizing"
        /\ k \in ffmpegProcesses
        /\ k \in DOMAIN videoDurations

\* min(100 * seconds / D, 99.9) clamped below at 0, in tenths of a percent
ExpectedProgress(time, D) ==
    LET seconds == 3600 * time[1] + 60 * time[2] + time[3]
        raw == (1000 * seconds) \div D
    IN IF raw > 999 THEN 999 ELSE IF raw < 0 THEN 0 ELSE raw

\* C19: for an optimizing job with a probed duration D > 0, a combiner line with
\* time=HH:MM:SS.ff sets the progress to min(100 * (3600 HH + 60 MM + SS) / D, 99.9),
\* not below 0, and a speed= token on that line sets the speed; the line
\* time=00:00:30.00 speed=2.5x with D = 60 gives progress 50 and speed 2.5.
C19_ProgressFormula ==
    [][\A j \in Ids, line \in Lines :
          (/\ CombinerData(j, line)
           /\ Status(j) = "optimizing"
           /\ line.time # <<>>
           /\ j \in DOMAIN videoDurations
           /\ videoDurations[j] > 0)
             => LET job == activeJobs'[Find(activeJobs', j)]
                IN /\ job.progress = ExpectedProgress(line.time, videoDurations[j])
                   /\ line.speed # <<>> => job.speed = line.speed
                   /\ (line = [time |-> <<0, 0, 30>>, speed |-> <<25>>]
                         /\ videoDurations[j] = 60)
                          => (job.progress = 500 /\ job.speed = <<25>>)]_vars

\* C19 witness: the job with a probed duration of 60 is at 50 percent and speed 2.5
C19_Witness ==
    \E i \in DOMAIN activeJobs :
        /\ activeJobs[i].status = "optimizing"
        /\ DurationOf(videoDurations, activeJobs[i].id) = <<60>>
        /\ activeJobs[i].progress = 500
        /\ activeJobs[i].speed = <<25>>

\* C20: a combiner line without a time= token, and any line for a job whose duration
\* is unknown (none recorded, or the probe printed no number), leaves every registry
\* entry as it was and raises nothing.
C20_NoTimeNoUpdate ==
    [][\A j \in Ids, line \in Lines :
          (/\ CombinerData(j, line)
           /\ \/ line.time = <<>>
              \/ DurationOf(videoDurations, j) \in {<<>>, <<0>>})
             => (UNCHANGED activeJobs /\ crashed' = crashed)]_vars

\* C20 witness: an optimizing job that has progress to lose while its combiner is
\* printing, and another optimizing job whose combiner is printing while its
\* duration is unknown
C20_Witness ==
    \E j, k \in Ids :
        /\ combiner[j] = "running"
        /\ Status(j) = "optimizing"
        /\ Progress(activeJobs, j) > 0
        /\ combiner[k] = "running"
        /\ Status(k) = "optimizing"
        /\ DurationOf(videoDurations, k) = <<0>>

\* combiner processes that were spawned and have neither exited nor been killed
LiveCombiners == {j \in Ids : combiner[j] = "running"}

\* C21: the number of live combiner processes never exceeds maxConcurrentJobs.
C21_LiveCombinersWithinCeiling == Cardinality(LiveCombiners) <= maxConcurrentJobs

\* C22: work conservation: while the server is up, no operation leaves the backlog
\* non-empty with fewer optimizing jobs than maxConcurrentJobs.
C22_WorkConserving ==
    ~crashed => ~(jobQueue # <<>> /\ RunningJobs(activeJobs) < maxConcurrentJobs)

\* C23: admission is first in, first out: while a job is still queued, no job
\* submitted after it has been started (is optimizing, completed or failed).
C23_FifoAdmission ==
    \A a, b \in Ids :
        (a < b /\ Status(a) = "queued") => Status(b) \in {"queued", "absent"}

\* C23 witness: under a ceiling of one, two jobs that were waiting in the backlog have
\* been admitted, in the order of their submission
C23_Witness ==
    /\ maxConcurrentJobs = 1
    /\ \E a, b \in Ids :
          /\ a < b
          /\ Status(a) = "optimizing"
          /\ Status(b) = "optimizing"
          /\ a \notin Range(jobQueue)
          /\ b \notin Range(jobQueue)

\* C24: while the server is up, the process table holds a handle for an id only while
\* the combiner of that id is alive and has not been killed: the handle is gone when
\* the close event has been handled and when cancelJob(id) returns; and a combiner
\* is spawned for an id at most once, so there never are two to keep a handle of.
C24_HandleOnlyWhileAlive ==
    /\ [](~crashed => \A id \in ffmpegProcesses : combiner[id] = "running")
    /\ [][\A id \in CallIds :
             /\ cancelJob(id) => id \notin ffmpegProcesses'
             /\ (id \in Ids /\ CombinerExitsNow(id)) => id \notin ffmpegProcesses'
             /\ (id \in Ids /\ combiner[id] # "running" /\ combiner'[id] = "running")
                   => (combiner[id] = "none" /\ id \notin ffmpegProcesses)]_vars

\* C24 witness: the combiner of one job was killed by cancelJob and has not exited
\* yet, its handle is gone, and another combiner is running with its handle
C24_Witness ==
    \E id, k \in Ids :
        /\ combiner[id] = "killed"
        /\ id \notin ffmpegProcesses
        /\ combiner[k] = "running"
        /\ k \in ffmpegProcesses

\* what a cancelJob(id) leaves behind: no entry and no handle for id, and nothing
\* for checkQueue to admit
Cancelled(id) ==
    /\ ~HasJob(activeJobs, id)
    /\ id \notin ffmpegProcesses
    /\ ~(jobQueue # <<>> /\ RunningJobs(activeJobs) < maxConcurrentJobs)

\* C25: cancellation is idempotent: cancelJob(id) leaves a state in which, also after
\* the close event of the process it killed, another cancelJob(id) changes neither
\* the registry nor the backlog nor the process table and kills nothing.
C25_CancelIdempotent ==
    [][\A id \in CallIds :
          /\ cancelJob(id) => Cancelled(id)'
          /\ (id \in Ids /\ Cancelled(id) /\ combiner[id] = "killed"
                /\ \E code \in ExitCodes : CombinerClose(id, code)) => Cancelled(id)'
          /\ (Cancelled(id) /\ cancelJob(id))
                => UNCHANGED <<activeJobs, jobQueue, ffmpegProcesses, combiner, probe,
                               crashed>>]_vars

\* C25 witness: cancelJob has killed a combiner, which has not exited yet, and the
\* backlog is not empty, so that a second cancelJob has a backlog to look at
C25_Witness ==
    \E id \in Ids :
        /\ combiner[id] = "killed"
        /\ Cancelled(id)
        /\ jobQueue # <<>>
        /\ ~crashed

\* C26: per job the events are ordered: a combiner exists only after the probe of
\* that job has exited with code 0; the progress of an entry changes only while its
\* combiner has been started and has not delivered its result (by an output line or
\* by the result itself); a completed or failed entry changes neither progress nor
\* status any more.
C26_EventsOrdered ==
    /\ [](\A j \in Ids : combiner[j] # "none" => probe[j] = "ok")
    /\ [][\A j \in Ids :
             (HasJob(activeJobs, j) /\ HasJob(activeJobs', j))
                => /\ Progress(activeJobs', j) # Progress(activeJobs, j)
                        => (combiner[j] \in {"running", "killed"}
                              /\ Status(j) = "optimizing")
                   /\ Status(j) \in {"completed", "failed"}
                        => /\ Progress(activeJobs', j) = Progress(activeJobs, j)
                           /\ StatusOf(activeJobs', j) = Status(j)]_vars

\* C26 witness: a job went through all of it: probe exited 0, the combiner printed a
\* line that was applied (the speed is set), then exited 0
C26_Witness ==
    \E i \in DOMAIN activeJobs :
        /\ activeJobs[i].status = "completed"
        /\ activeJobs[i].progress = ProgressDone
        /\ activeJobs[i].speed # <<>>
        /\ probe[activeJobs[i].id] = "ok"
        /\ combiner[activeJobs[i].id] = "closed"

\* C27: whenever a line with a speed= token is processed for an optimizing job whose
\* combiner is running, the job's speed is that value afterwards, with or without a
\* time= token on the line and with or without a known duration.
C27_SpeedIsLastEmitted ==
    \A j \in Ids, line \in Lines :
        (Status(j) = "optimizing" /\ combiner[j] = "running" /\ line.speed # <<>>)
           => LET jobs == updateProgress(activeJobs, videoDurations, j, line)
              IN jobs[Find(jobs, j)].speed = line.speed

\* C28: when the stat after a combiner exit with code 0 fails, the job stays
\* completed with progress 100 and size 0; and a size other than 0 is found on
\* completed jobs only.
C28_StatFailureKeepsCompleted ==
    /\ [](\A i \in DOMAIN activeJobs :
             activeJobs[i].size # 0 => activeJobs[i].status = "completed")
    /\ [][\A j \in Ids :
             (StatDone(j, <<>>) /\ HasJob(activeJobs, j))
                => LET job == activeJobs'[Find(activeJobs', j)]
                   IN /\ HasJob(activeJobs', j)
                      /\ job.status = "completed"
                      /\ job.progress = ProgressDone
                      /\ job.size = 0]_vars

\* C28 witness: the stat of a completed job's output has failed: the close listener
\* is through and the size is still 0
C28_Witness ==
    \E i \in DOMAIN activeJobs :
        /\ activeJobs[i].status = "completed"
        /\ activeJobs[i].progress = ProgressDone
        /\ activeJobs[i].size = 0
        /\ combiner[activeJobs[i].id] = "closed"

\* C29: the registry never holds two entries with the same id; downloadAndCombine
\* adds, in the one step it takes, an entry for a fresh id with progress 0 that is
\* queued and in the backlog (or, if the same call admitted it, optimizing with its
\* probe started); id, inputUrl and outputPath of an entry never change.
C29_OneEntryPerId ==
    /\ [](\A i, k \in DOMAIN activeJobs :
             activeJobs[i].id = activeJobs[k].id => i = k)
    /\ [][/\ \A url \in Urls :
               downloadAndCombine(url)
                  => /\ ~HasJob(activeJobs, nextId)
                     /\ HasJob(activeJobs', nextId)
                     /\ LET job == activeJobs'[Find(activeJobs', nextId)]
                        IN /\ job.progress = 0
                           /\ job.inputUrl = url
                           /\ job.outputPath = OutputPath(nextId)
                           /\ \/ job.status = "queued" /\ nextId \in Range(jobQueue')
                              \/ /\ job.status = "optimizing"
                                 /\ probe'[nextId] = "running"
                                 /\ nextId \notin Range(jobQueue')
          /\ \A j \in Ids :
               (HasJob(activeJobs, j) /\ HasJob(activeJobs', j))
                  => LET old == activeJobs[Find(activeJobs, j)]
                         new == activeJobs'[Find(activeJobs', j)]
                     IN /\ new.id = old.id
                        /\ new.inputUrl = old.inputUrl
                        /\ new.outputPath = old.outputPath]_vars

\* C29 witness: two entries, the older one started and at work, the newer one
\* created queued and waiting in the backlog
C29_Witness ==
    \E i, k \in DOMAIN activeJobs :
        /\ i < k
        /\ activeJobs[i].status = "optimizing"
        /\ activeJobs[i].progress > 0
        /\ activeJobs[k].status = "queued"
        /\ activeJobs[k].id \in Range(jobQueue)

\* C30: once cancelJob has removed a job, no combiner is started for its id: an id
\* that was handed out and has no registry entry never gets a combiner spawned.
C30_NoCombinerAfterCancel ==
    [][\A j \in Ids :
          (j < nextId /\ ~HasJob(activeJobs, j) /\ combiner'[j] = "running")
             => combiner[j] = "running"]_vars

\* C31: a job is admitted at most once: the probe of an id is spawned only for an id
\* that never had a probe or a combiner, and the combiner of an id only for an id
\* that never had a combiner; the backlog never holds an id twice.
C31_AdmittedAtMostOnce ==
    /\ [](\A i, k \in DOMAIN jobQueue : jobQueue[i] = jobQueue[k] => i = k)
    /\ [][\A j \in Ids :
             /\ (probe'[j] = "running" /\ probe[j] # "running")
                   => (probe[j] = "none" /\ combiner[j] = "none")
             /\ (combiner'[j] = "running" /\ combiner[j] # "running")
                   => combiner[j] = "none"
             /\ probe[j] # "none" => probe'[j] # "none"
             /\ combiner[j] # "none" => combiner'[j] # "none"]_vars

\* C31 witness: a job has been through its probe and its combiner, and a job
\* submitted after it was admitted from the backlog while the first had no entry
\* any more or was finished
C31_Witness ==
    \E j, k \in Ids :
        /\ j < k
        /\ probe[j] = "ok"
        /\ combiner[j] = "closed"
        /\ probe[k] = "ok"
        /\ combiner[k] = "running"

\* C32: backlog and registry agree: every id in jobQueue has a registry entry whose
\* status is queued, and every queued entry has its id in jobQueue exactly once.
C32_QueueMatchesRegistry ==
    /\ \A i \in DOMAIN jobQueue : Status(jobQueue[i]) = "queued"
    /\ \A i \in DOMAIN activeJobs :
          activeJobs[i].status = "queued"
             => Cardinality({k \in DOMAIN jobQueue : jobQueue[k] = activeJobs[i].id}) = 1

====
